---- MODULE Spec2Model ----
(***************************************************************************)
(* A model of scancode's Codebase / Resource tree (src/scancode/resource.py)*)
(*                                                                         *)
(* Names of files and directories are small integers; the order of the    *)
(* integers stands for the order Python's sorted() gives the names.        *)
(* A path is the sequence of names below the codebase location, so the     *)
(* root location is <<>>.                                                   *)
(*                                                                         *)
(* A slot of Codebase.resources is one of                                  *)
(*   [kind |-> "res", ...]   a Resource object                             *)
(*   [kind |-> "none"]       None, left by remove_resource                 *)
(*   [kind |-> "int", val]   a bare integer, appended by Resource.add_child*)
(* Slot i of the Python list is resources[i + 1] here.                     *)
(* A Resource's pid is <<>> for None and <<p>> for the integer p.          *)
(***************************************************************************)
EXTENDS Integers, Sequences, FiniteSets, TLC

\* ------------------------------------------------------------------ bounds
MaxEntries == 3   \* filesystem entries below the root location
MaxAdds    == 2   \* add_child calls on one codebase
MaxCalls   == 3   \* add_codebase and del_codebase calls, all threads together
MaxRecords == 3   \* records given to build_tree

\* The names an entry can have in its directory, and the sizes set_info reports.
Names == {1, 2}
Sizes == {0, 1}

VARIABLES
    phase,      \* "new" (no Codebase yet) | "populated" | "failed" (populate raised)
    resources,  \* Codebase.resources
    issued,     \* the rids handed out so far, in order (populate, then add_child)
    adds,       \* number of add_child calls made
    last        \* the latest call: its name, arguments, result and error

vars == <<phase, resources, issued, adds, last>>

\* The registry of codebases (add_codebase, del_codebase, get_codebase).
VARIABLES
    _CODEBASES, \* the module global of each process: cid -> codebase object
    lock,       \* the thread holding the lock file, 0 when nobody does
    pc,         \* where each thread is in its call: "idle" | "wait" | "cs" | "store"
    call,       \* the call each thread is in: [op, arg, cid]
    calls,      \* number of add_codebase and del_codebase calls started
    given,      \* per process, the cids returned for newly added codebases, in order
    answer      \* the latest call that ended: thread, op, argument, result, error

registry_vars == <<_CODEBASES, lock, pc, call, calls, given, answer>>

\* The scans of one Resource (get_scans, put_scans).
VARIABLES
    made,       \* whether the Resource is constructed
    use_cache,  \* Resource.use_cache, set at creation from the codebase
    _scans,     \* Resource._scans, an OrderedDict: a sequence of <<key, value>>
    cached,     \* the cache file of the Resource: [exists, text]
    reply       \* the latest call: its name, arguments and result

cache_vars == <<made, use_cache, _scans, cached, reply>>

\* build_tree of the merkle tree plugin (src/scancode/plugin_merkle_tree.py).
VARIABLES
    results,    \* the list of records build_tree is given
    nth,        \* the index in results of scanned_file, the record being handled
    bpc,        \* "idle" | "record" | "ascend" | "attach" | "done" | "raised"
    nodes,      \* the Dir objects created, in order; the root is the first
    lists,      \* the list objects the Dir objects hold as dirs and files
    dirs,       \* the dict dirs: path -> Dir object
    locals      \* the variables parent and current: Dir objects, 0 when unset

builder_vars == <<results, nth, bpc, nodes, lists, dirs, locals>>

\* build_merkle_tree of the same plugin, after its call of build_tree.
VARIABLES
    visited,    \* number of directories postorder_walk has yielded so far
    hash_stack, \* the list hash_stack: the digests kept for a later directory
    sha1s,      \* data['sha1'] of the Dir objects hashed so far: Dir -> digest
    output      \* the records the generator has yielded so far, in order

merkle_vars == <<visited, hash_stack, sha1s, output>>

\* What the methods of each part leave alone.
codebase_frame == <<registry_vars, cache_vars, builder_vars, merkle_vars>>
registry_frame == <<vars, cache_vars, builder_vars, merkle_vars>>
cache_frame == <<vars, registry_vars, builder_vars, merkle_vars>>
builder_frame == <<vars, registry_vars, cache_vars, merkle_vars>>
merkle_frame == <<vars, registry_vars, cache_vars, builder_vars>>

all_vars == <<vars, registry_vars, cache_vars, builder_vars, merkle_vars>>

\* ------------------------------------------------------------- sequences
RECURSIVE SeqSum(_)
SeqSum(s) == IF s = <<>> THEN 0 ELSE Head(s) + SeqSum(Tail(s))

Range(s) == {s[i] : i \in 1..Len(s)}

RECURSIVE Flatten(_)
Flatten(ss) == IF ss = <<>> THEN <<>> ELSE Head(ss) \o Flatten(Tail(ss))

\* The elements of the set of integers S in ascending order: sorted(names).
RECURSIVE SortedNames(_)
SortedNames(S) ==
    IF S = {} THEN <<>>
    ELSE LET m == CHOOSE x \in S : \A y \in S : x <= y
         IN  <<m>> \o SortedNames(S \ {m})

\* The first index of s holding x, 0 when there is none.
IndexOf(s, x) ==
    IF \E i \in 1..Len(s) : s[i] = x
    THEN CHOOSE i \in 1..Len(s) : s[i] = x /\ \A j \in 1..(i - 1) : s[j] # x
    ELSE 0

\* list.remove(x) on a list holding x: drops the first occurrence only.
RemoveFirst(s, x) ==
    LET i == IndexOf(s, x)
    IN  SubSeq(s, 1, i - 1) \o SubSeq(s, i + 1, Len(s))

\* ------------------------------------------------------------ filesystem
IsChildPath(p, q) == Len(q) = Len(p) + 1 /\ SubSeq(q, 1, Len(p)) = p

\* os.walk's dirs and files of the directory top, as sets of names.
DirNames(f, top)  == {q[Len(q)] : q \in {x \in DOMAIN f : IsChildPath(top, x) /\ ~f[x].is_file}}
FileNames(f, top) == {q[Len(q)] : q \in {x \in DOMAIN f : IsChildPath(top, x) /\ f[x].is_file}}

\* The filesystems the location can hold: a function from the paths below the
\* location to [is_file, skip], the root location <<>> included, every entry
\* in a directory. skip is what is_special(loc) or ignored(loc) answers.
RootOnly == {(<<>> :> [is_file |-> b, skip |-> s]) : b \in BOOLEAN, s \in BOOLEAN}

WithEntry(f, p, name, is_file, skip) ==
    [q \in DOMAIN f \cup {Append(p, name)} |->
        IF q = Append(p, name) THEN [is_file |-> is_file, skip |-> skip] ELSE f[q]]

OneMoreEntry(f) ==
    LET free == {x \in (DOMAIN f) \X Names :
                    ~f[x[1]].is_file /\ Append(x[1], x[2]) \notin DOMAIN f}
    IN  UNION {{WithEntry(f, x[1], x[2], b, s) : b \in BOOLEAN, s \in BOOLEAN} : x \in free}

RECURSIVE FileSystemsUpTo(_)
FileSystemsUpTo(k) ==
    IF k = 0 THEN RootOnly
    ELSE LET smaller == FileSystemsUpTo(k - 1)
         IN  smaller \cup UNION {OneMoreEntry(f) : f \in smaller}

FileSystems == FileSystemsUpTo(MaxEntries)

\* is_special(loc) or ignored(loc): the classification the walk collaborator gives.
Skipped(f, loc) == f[loc].skip

\* The directories os.walk(topdown=True) visits, in its order: top, then the
\* walk of each subdirectory in the order os.listdir returned them (order: a
\* sequence holding every name once). populate never prunes dirs, so the
\* walk descends into every directory.
RECURSIVE os_walk(_, _, _)
os_walk(f, top, order) ==
    LET sub == SelectSeq(order, LAMBDA n : n \in DirNames(f, top))
    IN  <<top>> \o Flatten([i \in 1..Len(sub) |-> os_walk(f, Append(top, sub[i]), order)])

\* ---------------------------------------------------------------- Resource
NonePid == <<>>
Nothing == [kind |-> "none"]
IntSlot(v) == [kind |-> "int", val |-> v]

\* Resource(name, rid, pid, is_file): the attrs defaults for the other fields.
Resource(name, rid, pid, is_file) ==
    [kind |-> "res", name |-> name, rid |-> rid, pid |-> pid, is_file |-> is_file,
     children_rids |-> <<>>, size |-> 0, files_count |-> 0, dirs_count |-> 0]

IsRes(x) == x.kind = "res"

\* resources[rid] of the Python list.
Slot(res, rid) == res[rid + 1]
SetSlot(res, rid, x) == [res EXCEPT ![rid + 1] = x]

\* A bug _add_child could have: the rid goes on the root's children_rids.
AppendChildRidToRoot(res, prid, rid) ==
    [res EXCEPT ![1].children_rids = Append(@, rid)]

\* Resource._add_child seen from the list: the parent at slot prid gets rid
\* appended to its children_rids; the created child is returned to the caller.
AppendChildRid(res, prid, rid) ==
    [res EXCEPT ![prid + 1].children_rids = Append(@, rid)]

\* ---------------------------------------------------------------- populate
\* One batch of populate's two inner loops: the names, in sorted order, each
\* skipped when classified or else given the next rid, added to the parent's
\* children and appended to resources. st = [res, loc, raised].
RECURSIVE AddEntries(_, _, _, _, _, _)
AddEntries(f, st, top, prid, names, is_file) ==
    IF names = <<>> THEN st
    ELSE LET loc == Append(top, Head(names))
             rid == Len(st.res)
             child == Resource(Head(names), rid, <<prid>>, is_file)
             nxt == IF Skipped(f, loc) THEN st
                    ELSE [st EXCEPT !.res = Append(AppendChildRid(st.res, prid, rid), child),
                                    !.loc = [p \in DOMAIN st.loc \cup {loc} |->
                                               IF p = loc THEN rid ELSE st.loc[p]]]
         IN  AddEntries(f, nxt, top, prid, Tail(names), is_file)

\* The body of populate's loop for one top of os_walk.
PopulateTop(f, st, top) ==
    IF st.raised THEN st
    ELSE IF Skipped(f, top) THEN st
    ELSE IF top \notin DOMAIN st.loc THEN [st EXCEPT !.raised = TRUE]
    ELSE LET prid == st.loc[top]
             withDirs == AddEntries(f, st, top, prid, SortedNames(DirNames(f, top)), FALSE)
         IN  AddEntries(f, withDirs, top, prid, SortedNames(FileNames(f, top)), TRUE)

RECURSIVE PopulateLoop(_, _, _)
PopulateLoop(f, st, tops) ==
    IF tops = <<>> THEN st
    ELSE PopulateLoop(f, PopulateTop(f, st, Head(tops)), Tail(tops))

\* Codebase.populate: the resources it leaves and whether it raised (the
\* KeyError of res_by_loc[top]).
populate(f, order) ==
    LET root == Resource(0, 0, NonePid, f[<<>>].is_file)
        st0 == [res |-> <<root>>, loc |-> (<<>> :> 0), raised |-> FALSE]
    IN  IF f[<<>>].is_file THEN st0
        ELSE PopulateLoop(f, st0, os_walk(f, <<>>, order))

\* -------------------------------------------------------------------- walk
\* What a generator gave before it ended: the rids of the Resources yielded,
\* in order, and whether it ended by raising.
Walked(seq, raised) == [seq |-> seq, raised |-> raised]

\* Resource.children(): the slots the children_rids name (an rid is always
\* below len(resources): see add_child).
children(res, rid) ==
    [i \in 1..Len(Slot(res, rid).children_rids) |-> Slot(res, rid).children_rids[i]]

\* A bug the sort key could have: files first.
sorter_files_first(a, b) ==
    \/ (a.is_file /\ ~b.is_file)
    \/ (a.is_file = b.is_file /\ a.name <= b.name)

\* The sort key of _walk, (is_file, name), as an order: False before True,
\* then by name.
sorter(a, b) ==
    \/ (~a.is_file /\ b.is_file)
    \/ (a.is_file = b.is_file /\ a.name <= b.name)

\* list.sort(key=sorter) on a list of rids of Resources: stable.
RECURSIVE InsertSorted(_, _, _)
InsertSorted(res, sorted, rid) ==
    IF sorted = <<>> THEN <<rid>>
    ELSE IF sorter(Slot(res, sorted[Len(sorted)]), Slot(res, rid))
         THEN Append(sorted, rid)
         ELSE Append(InsertSorted(res, SubSeq(sorted, 1, Len(sorted) - 1), rid),
                     sorted[Len(sorted)])

RECURSIVE SortChildren(_, _)
SortChildren(res, kids) ==
    IF kids = <<>> THEN <<>>
    ELSE InsertSorted(res, SortChildren(res, SubSeq(kids, 1, Len(kids) - 1)), kids[Len(kids)])

\* Python stops a recursion that nests too deep with a RuntimeError. Its limit
\* (1000 frames) is beyond the depth of every tree here, so a walk nests deeper
\* than the number of slots only on a cycle of children_rids, where it never
\* returns to shallower depth: such a walk ends by raising. What it yielded
\* before that is cut at this depth.
RecursionLimit(res) == Len(res) + 1

\* Resource._walk on the Resource at slot rid. A child that is None or an
\* integer raises AttributeError: in the sort, before any child is walked,
\* or else when the loop reaches it.
RECURSIVE _walk(_, _, _, _, _)
RECURSIVE WalkChildren(_, _, _, _, _)
_walk(res, rid, topdown, sort, depth) ==
    IF depth > RecursionLimit(res) THEN Walked(<<>>, TRUE)
    ELSE LET kids == children(res, rid)
             bad == \E i \in 1..Len(kids) : ~IsRes(Slot(res, kids[i]))
             first == IF topdown THEN <<rid>> ELSE <<>>
         IN  IF sort /\ kids # <<>> /\ bad THEN Walked(first, TRUE)
             ELSE LET ordered == IF sort /\ kids # <<>> THEN SortChildren(res, kids) ELSE kids
                      below == WalkChildren(res, ordered, topdown, sort, depth + 1)
                  IN  IF below.raised THEN Walked(first \o below.seq, TRUE)
                      ELSE Walked(first \o below.seq \o (IF topdown THEN <<>> ELSE <<rid>>), FALSE)

WalkChildren(res, kids, topdown, sort, depth) ==
    IF kids = <<>> THEN Walked(<<>>, FALSE)
    ELSE IF ~IsRes(Slot(res, Head(kids))) THEN Walked(<<>>, TRUE)
    ELSE LET w == _walk(res, Head(kids), topdown, sort, depth)
         IN  IF w.raised THEN w
             ELSE LET rest == WalkChildren(res, Tail(kids), topdown, sort, depth)
                  IN  Walked(w.seq \o rest.seq, rest.raised)

\* commoncode.functional.iter_skip: the iterable without its first or without
\* its last element. Skipping the last holds one element back, so the last
\* one produced is never passed on, whether the source ended or raised.
iter_skip(w, skip_first, skip_last) ==
    IF w.seq = <<>> THEN w
    ELSE IF skip_first THEN Walked(Tail(w.seq), w.raised)
    ELSE IF skip_last THEN Walked(SubSeq(w.seq, 1, Len(w.seq) - 1), w.raised)
    ELSE w

\* A bug Resource.walk could have: skip_root always drops the first element.
ResourceWalkSkipFirst(res, rid, topdown, sort, skip_root) ==
    IF Slot(res, rid).pid = NonePid /\ Slot(res, rid).children_rids = <<>>
    THEN Walked(<<rid>>, FALSE)
    ELSE LET walked == _walk(res, rid, topdown, sort, 1)
         IN  IF skip_root THEN iter_skip(walked, TRUE, FALSE) ELSE walked

\* Resource.walk on the Resource at slot rid.
ResourceWalk(res, rid, topdown, sort, skip_root) ==
    IF Slot(res, rid).pid = NonePid /\ Slot(res, rid).children_rids = <<>>
    THEN Walked(<<rid>>, FALSE)
    ELSE LET walked == _walk(res, rid, topdown, sort, 1)
         IN  IF skip_root THEN iter_skip(walked, topdown, ~topdown) ELSE walked

\* A bug Codebase.walk could have: topdown is not passed on.
CodebaseWalkTopdownOnly(res, topdown, sort, skip_root) ==
    IF Slot(res, 0).children_rids = <<>> THEN Walked(<<0>>, FALSE)
    ELSE ResourceWalk(res, 0, TRUE, sort, skip_root)

\* Codebase.walk: the root is the Resource at slot 0.
CodebaseWalk(res, topdown, sort, skip_root) ==
    IF Slot(res, 0).children_rids = <<>> THEN Walked(<<0>>, FALSE)
    ELSE ResourceWalk(res, 0, topdown, sort, skip_root)

\* ------------------------------------------------------------------ counts
\* Resource._children_counts: (files_count, dirs_count, size) over the direct
\* children; a child that is None or an integer raises AttributeError.
RECURSIVE CountsLoop(_, _, _)
CountsLoop(res, kids, acc) ==
    IF kids = <<>> THEN acc
    ELSE LET c == Slot(res, Head(kids))
         IN  IF ~IsRes(c) THEN [acc EXCEPT !.raised = TRUE]
             ELSE CountsLoop(res, Tail(kids),
                     [acc EXCEPT !.files = @ + c.files_count + (IF c.is_file THEN 1 ELSE 0),
                                 !.dirs = @ + c.dirs_count + (IF c.is_file THEN 0 ELSE 1),
                                 !.size = @ + c.size])

_children_counts(res, rid) ==
    CountsLoop(res, children(res, rid), [files |-> 0, dirs |-> 0, size |-> 0, raised |-> FALSE])

\* A bug _update_children_counts could have: the counts are added to the old ones.
_update_children_counts_adding(res, rid) ==
    LET c == _children_counts(res, rid)
        r == Slot(res, rid)
    IN  SetSlot(res, rid, [r EXCEPT !.size = IF r.is_file THEN @ ELSE @ + c.size,
                                    !.files_count = @ + c.files,
                                    !.dirs_count = @ + c.dirs])

\* Resource._update_children_counts on the Resource at slot rid.
_update_children_counts(res, rid) ==
    LET c == _children_counts(res, rid)
        r == Slot(res, rid)
    IN  SetSlot(res, rid, [r EXCEPT !.size = IF r.is_file THEN @ ELSE c.size,
                                    !.files_count = c.files,
                                    !.dirs_count = c.dirs])

\* The loop of update_counts over what the bottom-up walk yields; each
\* Resource is updated as soon as it is yielded.
RECURSIVE UpdateLoop(_, _)
UpdateLoop(res, seq) ==
    IF seq = <<>> THEN [res |-> res, raised |-> FALSE]
    ELSE IF _children_counts(res, Head(seq)).raised THEN [res |-> res, raised |-> TRUE]
    ELSE UpdateLoop(_update_children_counts(res, Head(seq)), Tail(seq))

\* A bug update_counts could have: the walk is top-down.
update_counts_topdown(res) ==
    LET w == CodebaseWalk(res, TRUE, FALSE, FALSE)
        u == UpdateLoop(res, w.seq)
    IN  [res |-> u.res, raised |-> u.raised \/ w.raised]

\* Codebase.update_counts: the resources it leaves and whether it raised.
update_counts(res) ==
    LET w == CodebaseWalk(res, FALSE, FALSE, FALSE)
        u == UpdateLoop(res, w.seq)
    IN  [res |-> u.res, raised |-> u.raised \/ w.raised]

\* Codebase.counts: ret is the tuple returned, <<>> when the call raised.
\* With skip_root on a directory codebase the three sums come from
\* map(sum, zip(*counts)), which gives no sums at all for an empty list of
\* children, so that the unpacking raises ValueError.
counts(res, update, skip_root) ==
    LET u == IF update THEN update_counts(res) ELSE [res |-> res, raised |-> FALSE]
        root == Slot(u.res, 0)
        kids == children(u.res, 0)
    IN  IF u.raised THEN [res |-> u.res, ret |-> <<>>, raised |-> TRUE]
        ELSE IF skip_root /\ ~root.is_file
        THEN IF kids = <<>> \/ \E i \in 1..Len(kids) : ~IsRes(Slot(u.res, kids[i]))
             THEN [res |-> u.res, ret |-> <<>>, raised |-> TRUE]
             ELSE [res |-> u.res, raised |-> FALSE,
                   ret |-> <<SeqSum([i \in 1..Len(kids) |-> Slot(u.res, kids[i]).files_count]),
                             SeqSum([i \in 1..Len(kids) |-> Slot(u.res, kids[i]).dirs_count]),
                             SeqSum([i \in 1..Len(kids) |-> Slot(u.res, kids[i]).size])>>]
        ELSE [res |-> u.res, raised |-> FALSE,
              ret |-> <<root.files_count + (IF root.is_file THEN 1 ELSE 0),
                        root.dirs_count + (IF root.is_file THEN 0 ELSE 1),
                        root.size>>]

\* ---------------------------------------------------------------- mutation
\* Codebase._get_next_rid: the number of slots that are not None.
_get_next_rid(res) == Cardinality({i \in 1..Len(res) : res[i] # Nothing})

\* Resource.add_child on the Resource at slot prid: the child is created with
\* the next rid and returned, the rid goes on the parent's children_rids, and
\* the rid itself, an integer, is appended to resources.
add_child(res, prid, name, is_file) ==
    LET rid == _get_next_rid(res)
    IN  [res |-> Append(AppendChildRid(res, prid, rid), IntSlot(rid)),
         child |-> Resource(name, rid, <<prid>>, is_file)]

\* A bug remove_resource could have: only the slot of the Resource itself is
\* set to None, not the slots of what is beneath it.
TombstoneFirst(res, rids) ==
    IF rids = <<>> THEN res ELSE SetSlot(res, Head(rids), Nothing)

\* for rid in rids: resources[rid] = None
RECURSIVE Tombstone(_, _)
Tombstone(res, rids) ==
    IF rids = <<>> THEN res ELSE Tombstone(SetSlot(res, Head(rids), Nothing), Tail(rids))

\* Resource.parent() followed by remove_resource's unlinking: parent() is
\* None for a pid of None; a parent that is None (or the integer 0) is
\* skipped, a missing rid is the swallowed ValueError, an integer parent has
\* no children_rids and raises.
UnlinkNothing(res, pid, rid) == [res |-> res, raised |-> FALSE]

Unlink(res, pid, rid) ==
    IF pid = NonePid THEN [res |-> res, raised |-> FALSE]
    ELSE LET parent == Slot(res, pid[1])
         IN  IF parent.kind = "none" \/ (parent.kind = "int" /\ parent.val = 0)
             THEN [res |-> res, raised |-> FALSE]
             ELSE IF parent.kind = "int" THEN [res |-> res, raised |-> TRUE]
             ELSE IF IndexOf(parent.children_rids, rid) = 0 THEN [res |-> res, raised |-> FALSE]
             ELSE [res |-> [res EXCEPT ![pid[1] + 1].children_rids = RemoveFirst(@, rid)],
                   raised |-> FALSE]

\* A bug remove_resource could have: the root is not refused.
remove_resource_any(res, rid) ==
    LET w == ResourceWalk(res, rid, TRUE, FALSE, FALSE)
    IN  IF w.raised THEN [res |-> res, ret |-> <<>>, raised |-> TRUE]
        ELSE LET u == Unlink(Tombstone(res, w.seq), Slot(res, rid).pid, rid)
             IN  [res |-> u.res, ret |-> IF u.raised THEN <<>> ELSE w.seq,
                  raised |-> u.raised]

\* Codebase.remove_resource on the Resource at slot rid: ret is the list of
\* rids returned, <<>> when the call raised.
remove_resource(res, rid) ==
    IF Slot(res, rid).pid = NonePid THEN [res |-> res, ret |-> <<>>, raised |-> TRUE]
    ELSE LET w == ResourceWalk(res, rid, TRUE, FALSE, FALSE)
         IN  IF w.raised THEN [res |-> res, ret |-> <<>>, raised |-> TRUE]
             ELSE LET u == Unlink(Tombstone(res, w.seq), Slot(res, rid).pid, rid)
                  IN  [res |-> u.res, ret |-> IF u.raised THEN <<>> ELSE w.seq,
                       raised |-> u.raised]

\* ------------------------------------------------------------------ actions
NoCall == [op |-> "none"]

CodebaseInit ==
    /\ phase = "new"
    /\ resources = <<>>
    /\ issued = <<>>
    /\ adds = 0
    /\ last = NoCall

\* The orders in which os.listdir can return the names of a directory.
Orders == {s \in [1..Cardinality(Names) -> Names] :
             \A i, j \in 1..Cardinality(Names) : i # j => s[i] # s[j]}

\* Codebase.__init__ up to the end of populate(), on a location holding the
\* filesystem f, with os.listdir returning names in the order given.
Populate(f, order) ==
    /\ phase = "new"
    /\ LET st == populate(f, order)
       IN  /\ resources' = st.res
           /\ phase' = IF st.raised THEN "failed" ELSE "populated"
           /\ issued' = [i \in 1..Len(st.res) |-> i - 1]
           /\ last' = [op |-> "populate", fs |-> f, order |-> order, raised |-> st.raised]
    /\ UNCHANGED adds
    /\ UNCHANGED codebase_frame

LiveRids == {i \in 0..(Len(resources) - 1) : IsRes(Slot(resources, i))}

\* Resource.set_info with the size an info mapping reports for a file.
SetInfo(rid, size) ==
    /\ phase = "populated"
    /\ rid \in LiveRids
    /\ Slot(resources, rid).is_file
    /\ Slot(resources, rid).size # size
    /\ resources' = [resources EXCEPT ![rid + 1].size = size]
    /\ last' = [op |-> "set_info"]
    /\ UNCHANGED <<phase, issued, adds>>
    /\ UNCHANGED codebase_frame

\* Codebase.walk(topdown, sort, skip_root), consumed to its end.
Walk(topdown, sort, skip_root) ==
    /\ phase = "populated"
    /\ LET w == CodebaseWalk(resources, topdown, sort, skip_root)
       IN  last' = [op |-> "walk", topdown |-> topdown, sort |-> sort,
                    skip_root |-> skip_root, ret |-> w.seq, raised |-> w.raised]
    /\ UNCHANGED <<phase, resources, issued, adds>>
    /\ UNCHANGED codebase_frame

\* Codebase.remove_resource(resource) with the Resource at slot rid.
Remove(rid) ==
    /\ phase = "populated"
    /\ rid \in LiveRids
    /\ LET r == remove_resource(resources, rid)
       IN  /\ resources' = r.res
           /\ last' = [op |-> "remove", rid |-> rid, ret |-> r.ret, raised |-> r.raised]
    /\ UNCHANGED <<phase, issued, adds>>
    /\ UNCHANGED codebase_frame

\* Codebase.update_counts().
UpdateCounts ==
    /\ phase = "populated"
    /\ LET u == update_counts(resources)
       IN  /\ resources' = u.res
           /\ last' = [op |-> "update_counts", raised |-> u.raised]
    /\ UNCHANGED <<phase, issued, adds>>
    /\ UNCHANGED codebase_frame

\* Codebase.counts(update, skip_root).
Counts(update, skip_root) ==
    /\ phase = "populated"
    /\ LET c == counts(resources, update, skip_root)
       IN  /\ resources' = c.res
           /\ last' = [op |-> "counts", update |-> update, skip_root |-> skip_root,
                       ret |-> c.ret, raised |-> c.raised]
    /\ UNCHANGED <<phase, issued, adds>>
    /\ UNCHANGED codebase_frame

\* Codebase.add_resource(name, parent, is_file), that is parent.add_child(name,
\* is_file), with the Resource at slot prid as parent.
AddChild(prid, name, is_file) ==
    /\ phase = "populated"
    /\ adds < MaxAdds
    /\ prid \in LiveRids
    /\ LET a == add_child(resources, prid, name, is_file)
       IN  /\ resources' = a.res
           /\ issued' = Append(issued, a.child.rid)
           /\ last' = [op |-> "add_child", parent |-> prid, ret |-> a.child]
    /\ adds' = adds + 1
    /\ UNCHANGED phase
    /\ UNCHANGED codebase_frame

Construct == \E f \in FileSystems, o \in Orders : Populate(f, o)

Scan == \E rid \in LiveRids, size \in Sizes : SetInfo(rid, size)

Traverse == \E t \in BOOLEAN, s \in BOOLEAN, k \in BOOLEAN : Walk(t, s, k)

Aggregate == UpdateCounts \/ \E u \in BOOLEAN, k \in BOOLEAN : Counts(u, k)

Prune == \E rid \in LiveRids : Remove(rid)

Grow == \E prid \in LiveRids, n \in Names, f \in BOOLEAN : AddChild(prid, n, f)

\* ---------------------------------------------------------------- registry
\* Two processes: threads 1 and 2 run in process 1, thread 3 in process 2.
\* _CODEBASES is a module global, so each process has its own; the lock file
\* is one path of the filesystem, shared by all of them.
Procs == {1, 2}
Threads == {1, 2, 3}
ProcOf(t) == IF t = 3 THEN 2 ELSE 1

\* The Codebase objects a process holds, and Python's None for an object.
Trees == {"A", "B"}
None == "None"

\* The cids a caller may pass to del_codebase and get_codebase.
Cids == 1..MaxCalls

\* A bug the loop of add_codebase could have: the codebase is never found.
ExistingCidNever(reg, codebase) == 0

\* The loop of add_codebase over _CODEBASES.items(): the cid under which the
\* codebase object is cached, 0 when the loop ends without finding it.
ExistingCid(reg, codebase) ==
    IF \E cid \in DOMAIN reg : reg[cid] = codebase
    THEN CHOOSE cid \in DOMAIN reg : reg[cid] = codebase
    ELSE 0

\* The new cid of add_codebase: max(_CODEBASES.viewkeys()) + 1, or 1 for an
\* empty _CODEBASES.
new_cid(reg) ==
    IF DOMAIN reg = {} THEN 1
    ELSE (CHOOSE m \in DOMAIN reg : \A c \in DOMAIN reg : c <= m) + 1

\* _CODEBASES[cid] = codebase.
SetItem(reg, cid, codebase) ==
    [c \in DOMAIN reg \cup {cid} |-> IF c = cid THEN codebase ELSE reg[c]]

\* _CODEBASES.pop(cid, None): the dict left and the object returned.
Pop(reg, cid) ==
    IF cid \in DOMAIN reg
    THEN [reg |-> [c \in DOMAIN reg \ {cid} |-> reg[c]], ret |-> reg[cid]]
    ELSE [reg |-> reg, ret |-> None]

\* get_codebase(cid): _CODEBASES.get(cid).
get_codebase(reg, cid) == IF cid \in DOMAIN reg THEN reg[cid] ELSE None

NoArgs == [op |-> "none", arg |-> 0, cid |-> 0]

RegistryInit ==
    /\ _CODEBASES = [p \in Procs |-> <<>>]
    /\ lock = 0
    /\ pc = [t \in Threads |-> "idle"]
    /\ call = [t \in Threads |-> NoArgs]
    /\ calls = 0
    /\ given = [p \in Procs |-> <<>>]
    /\ answer = [op |-> "none"]

\* Thread t calls add_codebase(codebase) and goes for the lock.
CallAdd(t, codebase) ==
    /\ pc[t] = "idle"
    /\ calls < MaxCalls
    /\ pc' = [pc EXCEPT ![t] = "wait"]
    /\ call' = [call EXCEPT ![t] = [op |-> "add", arg |-> codebase, cid |-> 0]]
    /\ calls' = calls + 1
    /\ UNCHANGED <<_CODEBASES, lock, given, answer>>
    /\ UNCHANGED registry_frame

\* Thread t calls del_codebase(cid) and goes for the lock.
CallDel(t, cid) ==
    /\ pc[t] = "idle"
    /\ calls < MaxCalls
    /\ pc' = [pc EXCEPT ![t] = "wait"]
    /\ call' = [call EXCEPT ![t] = [op |-> "del", arg |-> 0, cid |-> cid]]
    /\ calls' = calls + 1
    /\ UNCHANGED <<_CODEBASES, lock, given, answer>>
    /\ UNCHANGED registry_frame

\* with FileLock(cache_lock_file, timeout=10): the lock is free and t gets it.
Acquire(t) ==
    /\ pc[t] = "wait"
    /\ lock = 0
    /\ lock' = t
    /\ pc' = [pc EXCEPT ![t] = "cs"]
    /\ UNCHANGED <<_CODEBASES, call, calls, given, answer>>
    /\ UNCHANGED registry_frame

\* A bug the handler could have: the body runs without the lock.
TimeoutFallback(t) ==
    /\ pc[t] = "wait"
    /\ lock # 0
    /\ pc' = [pc EXCEPT ![t] = "cs"]
    /\ UNCHANGED <<_CODEBASES, lock, call, calls, given, answer>>
    /\ UNCHANGED registry_frame

\* The lock stayed with another thread for the 10 seconds: FileLock raises
\* FileLockTimeout, which the except clause raises again to the caller.
Timeout(t) ==
    /\ pc[t] = "wait"
    /\ lock # 0
    /\ pc' = [pc EXCEPT ![t] = "idle"]
    /\ call' = [call EXCEPT ![t] = NoArgs]
    /\ answer' = [t |-> t, op |-> call[t].op, arg |-> call[t].arg, cid |-> call[t].cid,
                  ret |-> 0, obj |-> None, new |-> FALSE, raised |-> TRUE]
    /\ UNCHANGED <<_CODEBASES, lock, calls, given>>
    /\ UNCHANGED registry_frame

\* add_codebase under the lock, up to the choice of the cid: a codebase found
\* in _CODEBASES returns its cid (and the with statement releases the lock).
AddLookup(t) ==
    /\ pc[t] = "cs"
    /\ call[t].op = "add"
    /\ LET reg == _CODEBASES[ProcOf(t)]
           cid == ExistingCid(reg, call[t].arg)
       IN  IF cid # 0
           THEN /\ pc' = [pc EXCEPT ![t] = "idle"]
                /\ call' = [call EXCEPT ![t] = NoArgs]
                /\ lock' = 0
                /\ answer' = [t |-> t, op |-> "add", arg |-> call[t].arg, cid |-> 0,
                              ret |-> cid, obj |-> None, new |-> FALSE, raised |-> FALSE]
           ELSE /\ pc' = [pc EXCEPT ![t] = "store"]
                /\ call' = [call EXCEPT ![t].cid = new_cid(reg)]
                /\ UNCHANGED <<lock, answer>>
    /\ UNCHANGED <<_CODEBASES, calls, given>>
    /\ UNCHANGED registry_frame

\* _CODEBASES[new_cid] = codebase; return new_cid.
AddStore(t) ==
    /\ pc[t] = "store"
    /\ _CODEBASES' = [_CODEBASES EXCEPT ![ProcOf(t)] = SetItem(@, call[t].cid, call[t].arg)]
    /\ given' = [given EXCEPT ![ProcOf(t)] = Append(@, call[t].cid)]
    /\ pc' = [pc EXCEPT ![t] = "idle"]
    /\ call' = [call EXCEPT ![t] = NoArgs]
    /\ lock' = 0
    /\ answer' = [t |-> t, op |-> "add", arg |-> call[t].arg, cid |-> 0,
                  ret |-> call[t].cid, obj |-> None, new |-> TRUE, raised |-> FALSE]
    /\ UNCHANGED calls
    /\ UNCHANGED registry_frame

\* del_codebase under the lock: return _CODEBASES.pop(cid, None).
DelPop(t) ==
    /\ pc[t] = "cs"
    /\ call[t].op = "del"
    /\ LET popped == Pop(_CODEBASES[ProcOf(t)], call[t].cid)
       IN  /\ _CODEBASES' = [_CODEBASES EXCEPT ![ProcOf(t)] = popped.reg]
           /\ answer' = [t |-> t, op |-> "del", arg |-> 0, cid |-> call[t].cid,
                         ret |-> 0, obj |-> popped.ret, new |-> FALSE, raised |-> FALSE]
    /\ pc' = [pc EXCEPT ![t] = "idle"]
    /\ call' = [call EXCEPT ![t] = NoArgs]
    /\ lock' = 0
    /\ UNCHANGED <<calls, given>>
    /\ UNCHANGED registry_frame

\* Thread t calls get_codebase(cid), which takes no lock.
GetCodebase(t, cid) ==
    /\ pc[t] = "idle"
    /\ answer' = [t |-> t, op |-> "get", arg |-> 0, cid |-> cid,
                  ret |-> 0, obj |-> get_codebase(_CODEBASES[ProcOf(t)], cid),
                  new |-> FALSE, raised |-> FALSE]
    /\ UNCHANGED <<_CODEBASES, lock, pc, call, calls, given>>
    /\ UNCHANGED registry_frame

Register == \E t \in Threads, codebase \in Trees : CallAdd(t, codebase)

Unregister == \E t \in Threads, cid \in Cids : CallDel(t, cid)

Lock == \E t \in Threads : Acquire(t) \/ Timeout(t)

Locked == \E t \in Threads : AddLookup(t) \/ AddStore(t) \/ DelPop(t)

Resolve == \E t \in Threads, cid \in Cids : GetCodebase(t, cid)

\* ------------------------------------------------------------------- scans
\* The names of the scans and the results a scanner gives: JSON strings.
Keys == {"a", "b"}
Vals == {"x", "y"}

\* The OrderedDicts over Keys and Vals: the key/value pairs in insertion
\* order, no key twice.
Payloads ==
    {<<>>}
    \cup {<<<<k, v>>>> : k \in Keys, v \in Vals}
    \cup {d \in {<<<<k1, v1>>, <<k2, v2>>>> : k1 \in Keys, k2 \in Keys, v1 \in Vals, v2 \in Vals} :
            d[1][1] # d[2][1]}

\* What a caller passes as scans: a mapping, or None.
ScansArgs == [is_none : {FALSE}, items : Payloads] \cup {[is_none |-> TRUE, items |-> <<>>]}

HasKey(d, k) == \E i \in 1..Len(d) : d[i][1] = k

\* d[k] = v on an OrderedDict: a key it has keeps its place, a new one goes last.
SetKey(d, k, v) ==
    IF HasKey(d, k)
    THEN [i \in 1..Len(d) |-> IF d[i][1] = k THEN <<k, v>> ELSE d[i]]
    ELSE Append(d, <<k, v>>)

\* A bug the merge could have: the stored value of a key wins.
dict_update_keep(d, scans) ==
    d \o SelectSeq(scans, LAMBDA kv : ~HasKey(d, kv[1]))

\* d.update(scans): every pair of scans is set on d, in the order of scans.
RECURSIVE dict_update(_, _)
dict_update(d, scans) ==
    IF scans = <<>> THEN d
    ELSE dict_update(SetKey(d, Head(scans)[1], Head(scans)[2]), Tail(scans))

\* json.dump of a mapping: the text of the object, here its tokens, each
\* "key": "value" member in the order of the mapping.
RECURSIVE json_dump(_)
json_dump(d) ==
    IF d = <<>> THEN <<"{", "}">>
    ELSE <<"{">> \o Flatten([i \in 1..Len(d) |-> <<d[i][1], ":", d[i][2], ",">>]) \o <<"}">>

\* json.load(cached, object_pairs_hook=OrderedDict): the members of the object
\* in the order of the text, given to OrderedDict as pairs.
json_load(text) ==
    LET n == (Len(text) - 2) \div 4
        pairs == [i \in 1..n |-> <<text[4 * i - 2], text[4 * i]>>]
    IN  dict_update(<<>>, pairs)

NoFile == [exists |-> FALSE, text |-> <<>>]

\* Resource.get_scans: the mapping returned.
get_scans(cache, scans, file) ==
    IF ~cache THEN scans
    ELSE IF ~file.exists THEN <<>>
    ELSE json_load(file.text)

\* A bug put_scans could have: empty scans are stored like any other.
put_scans_empty_too(cache, scans, file, arg, update) ==
    IF ~cache
    THEN LET kept == IF update THEN dict_update(scans, arg.items) ELSE dict_update(<<>>, arg.items)
         IN  [scans |-> kept, file |-> file, ret |-> kept]
    ELSE LET existing == IF update THEN dict_update(get_scans(cache, scans, file), arg.items)
                         ELSE arg.items
         IN  [scans |-> <<>>, file |-> [exists |-> TRUE, text |-> json_dump(existing)],
              ret |-> existing]

\* Resource.put_scans(scans, update): _scans and the cache file it leaves, and
\* the mapping it returns.
put_scans(cache, scans, file, arg, update) ==
    IF arg.is_none \/ arg.items = <<>>
    THEN [scans |-> scans, file |-> file, ret |-> <<>>]
    ELSE IF ~cache
    THEN LET kept == IF update THEN dict_update(scans, arg.items) ELSE dict_update(<<>>, arg.items)
         IN  [scans |-> kept, file |-> file, ret |-> kept]
    ELSE LET existing == IF update THEN dict_update(get_scans(cache, scans, file), arg.items)
                         ELSE arg.items
         IN  [scans |-> <<>>, file |-> [exists |-> TRUE, text |-> json_dump(existing)],
              ret |-> existing]

CacheInit ==
    /\ made = FALSE
    /\ use_cache = FALSE
    /\ _scans = <<>>
    /\ cached = NoFile
    /\ reply = [op |-> "none"]

\* Resource(...) in a codebase with or without use_cache: _scans is a new
\* OrderedDict and the cache directory of the codebase is new.
NewResource(cache) ==
    /\ ~made
    /\ made' = TRUE
    /\ use_cache' = cache
    /\ reply' = [op |-> "new"]
    /\ UNCHANGED <<_scans, cached>>
    /\ UNCHANGED cache_frame

\* Resource.get_scans().
GetScans ==
    /\ made
    /\ reply' = [op |-> "get", ret |-> get_scans(use_cache, _scans, cached)]
    /\ UNCHANGED <<made, use_cache, _scans, cached>>
    /\ UNCHANGED cache_frame

\* Resource.put_scans(scans, update).
PutScans(arg, update) ==
    /\ made
    /\ LET put == put_scans(use_cache, _scans, cached, arg, update)
       IN  /\ _scans' = put.scans
           /\ cached' = put.file
           /\ reply' = [op |-> "put", arg |-> arg, update |-> update, ret |-> put.ret]
    /\ UNCHANGED <<made, use_cache>>
    /\ UNCHANGED cache_frame

Create == \E cache \in BOOLEAN : NewResource(cache)

Put == \E arg \in ScansArgs, update \in BOOLEAN : PutScans(arg, update)

\* -------------------------------------------------------------- build_tree
\* A path is the sequence of its segments: "a/b/c" is <<a, b, c>>. The top
\* segment of every record is 0; below it the segments are 1 and 2, and only
\* directories named 1 hold something.
Segments == {1, 2}

BuilderPaths ==
    {<<0>>}
    \cup {<<0, n>> : n \in Segments}
    \cup {<<0, 1, n>> : n \in Segments}
    \cup {<<0, 1, 1, n>> : n \in Segments}

\* A SHA1 value is a sequence of integers, so that the values of files and of
\* directories compare: a file has one of two values, a directory record none.
Hashes == {<<1>>, <<2>>}
NoSha1 == <<>>

\* A scan record: scanned_file['path'], scanned_file['type'] and, read by
\* build_merkle_tree only, scanned_file['sha1'].
Records ==
    [path : BuilderPaths, type : {"directory"}, sha1 : {NoSha1}]
    \cup [path : BuilderPaths, type : {"file"}, sha1 : Hashes]

IsPrefix(p, q) == Len(p) < Len(q) /\ SubSeq(q, 1, Len(p)) = p

\* The lists of records a scan gives: no path twice and nothing below a file.
ScanResults ==
    UNION {{rs \in [1..n -> Records] :
              \A i, j \in 1..n :
                 i # j => /\ rs[i].path # rs[j].path
                          /\ ~(rs[i].type = "file" /\ IsPrefix(rs[i].path, rs[j].path))}
           : n \in 0..MaxRecords}

\* parent_directory(path).strip('/'): the path without its last segment,
\* the empty path for a path of one segment and for the empty path.
parent_directory(path) ==
    IF path = <<>> THEN <<>> ELSE SubSeq(path, 1, Len(path) - 1)

\* The root Dir is the first object created.
RootDir == 1

\* The state of build_tree as one value, for the steps below.
Builder == [nodes |-> nodes, lists |-> lists, dirs |-> dirs,
            parent |-> locals.parent, current |-> locals.current]

\* Dir(data): a new object with two new, empty lists. scanned tells the data
\* of a record from the data create_empty_dir makes up.
Dir(st, path, scanned) ==
    [st EXCEPT !.nodes = Append(@, [path |-> path, scanned |-> scanned,
                                    dirs |-> Len(st.lists) + 1,
                                    files |-> Len(st.lists) + 2]),
               !.lists = @ \o <<<<>>, <<>>>>]

create_empty_dir(st, path) == Dir(st, path, FALSE)

\* for dir in l: if dir == <a Dir with this path>: the index in the list l of
\* the first Dir with an equal path (Dir.__eq__), 0 when the loop finds none.
FindDir(st, l, path) ==
    LET found == {i \in 1..Len(st.lists[l]) : st.nodes[st.lists[l][i]].path = path}
    IN  IF found = {} THEN 0 ELSE CHOOSE i \in found : \A j \in found : i <= j

\* The for loop body up to the while loop: parent is looked up in dirs, and
\* created, stored in dirs and grown current when it is not there.
lookup(st, record) ==
    LET parent_path == parent_directory(record.path)
    IN  IF parent_path \in DOMAIN st.dirs
        THEN [st EXCEPT !.parent = st.dirs[parent_path]]
        ELSE LET grown == create_empty_dir(st, parent_path)
                 new == Len(grown.nodes)
             IN  [grown EXCEPT !.dirs = SetItem(@, parent_path, new),
                              !.parent = new, !.current = new]

\* One pass of the body of while current != root.
ascend(st) ==
    LET curr_path == st.nodes[st.current].path
        curr_parent_path == parent_directory(curr_path)
    IN  IF curr_parent_path \in DOMAIN st.dirs
        THEN LET curr_parent == st.dirs[curr_parent_path]
                 l == st.nodes[curr_parent].dirs
                 i == FindDir(st, l, curr_path)
             IN  IF i # 0
                 THEN [st EXCEPT !.nodes[st.lists[l][i]].dirs = st.nodes[st.current].dirs,
                                 !.nodes[st.lists[l][i]].files = st.nodes[st.current].files,
                                 !.current = curr_parent]
                 ELSE [st EXCEPT !.lists[l] = Append(@, st.current),
                                 !.current = curr_parent]
        ELSE LET grown == create_empty_dir(st, curr_parent_path)
                 new == Len(grown.nodes)
             IN  [grown EXCEPT !.dirs = SetItem(@, curr_parent_path, new),
                              !.parent = new, !.current = new]

\* The end of the for loop body: the record goes to parent.dirs, or its data
\* to the Dir of parent.dirs with its path, or the record goes to parent.files.
attach(st, record) ==
    IF record.type = "directory"
    THEN LET l == st.nodes[st.parent].dirs
             i == FindDir(st, l, record.path)
         IN  IF i # 0
             THEN [st EXCEPT !.nodes[st.lists[l][i]].scanned = TRUE]
             ELSE LET grown == Dir(st, record.path, TRUE)
                  IN  [grown EXCEPT !.lists[l] = Append(@, Len(grown.nodes))]
    ELSE [st EXCEPT !.lists[st.nodes[st.parent].files] = Append(@, record.path)]

BuilderInit ==
    /\ results = <<>>
    /\ nth = 0
    /\ bpc = "idle"
    /\ nodes = <<>>
    /\ lists = <<>>
    /\ dirs = <<>>
    /\ locals = [parent |-> 0, current |-> 0]

\* The builder state st becomes the state of build_tree.
BuilderBecomes(st) ==
    /\ nodes' = st.nodes
    /\ lists' = st.lists
    /\ dirs' = st.dirs
    /\ locals' = [parent |-> st.parent, current |-> st.current]

\* A variant of build_tree's start: an empty list gives a root of the empty
\* path instead of the IndexError.
StartOnEmptyRoot(rs) ==
    /\ bpc = "idle"
    /\ results' = rs
    /\ bpc' = IF rs = <<>> THEN "done" ELSE "record"
    /\ nth' = IF rs = <<>> THEN 0 ELSE 1
    /\ LET root_path == IF rs = <<>> THEN <<>> ELSE <<rs[1].path[1]>>
           grown == create_empty_dir(Builder, root_path)
       IN  BuilderBecomes([grown EXCEPT !.dirs = (root_path :> RootDir)])
    /\ UNCHANGED builder_frame

\* build_tree(results) up to its for loop: results[0] raises IndexError on
\* an empty list; else the root is grown for the top segment of the first path.
Start(rs) ==
    /\ bpc = "idle"
    /\ results' = rs
    /\ IF rs = <<>>
       THEN /\ bpc' = "raised"
            /\ UNCHANGED <<nth, nodes, lists, dirs, locals>>
       ELSE /\ bpc' = "record"
            /\ nth' = 1
            /\ LET root_path == <<rs[1].path[1]>>
                   grown == create_empty_dir(Builder, root_path)
               IN  BuilderBecomes([grown EXCEPT !.dirs = (root_path :> RootDir)])
    /\ UNCHANGED builder_frame

\* The next record of the for loop, up to the while loop.
Lookup ==
    /\ bpc = "record"
    /\ BuilderBecomes(lookup(Builder, results[nth]))
    /\ bpc' = IF parent_directory(results[nth].path) \in DOMAIN dirs THEN "attach" ELSE "ascend"
    /\ UNCHANGED <<results, nth>>
    /\ UNCHANGED builder_frame

\* while current != root: one test of the condition and, when it holds, one
\* pass of the body.
Ascend ==
    /\ bpc = "ascend"
    /\ IF nodes[locals.current].path = nodes[RootDir].path
       THEN /\ bpc' = "attach"
            /\ UNCHANGED <<nodes, lists, dirs, locals>>
       ELSE /\ bpc' = "ascend"
            /\ BuilderBecomes(ascend(Builder))
    /\ UNCHANGED <<results, nth>>
    /\ UNCHANGED builder_frame

\* The record is attached; the for loop goes on or build_tree returns root.
Attach ==
    /\ bpc = "attach"
    /\ BuilderBecomes(attach(Builder, results[nth]))
    /\ IF nth = Len(results)
       THEN bpc' = "done" /\ UNCHANGED nth
       ELSE bpc' = "record" /\ nth' = nth + 1
    /\ UNCHANGED results
    /\ UNCHANGED builder_frame

\* build_tree is called once, on any of the lists.
BuildTree ==
    /\ bpc = "idle"
    /\ \E rs \in ScanResults : Start(rs)

\* -------------------------------------------------------- build_merkle_tree
\* build_tree before its first statement: nothing is created.
NoTree == [nodes |-> <<>>, lists |-> <<>>, dirs |-> <<>>, parent |-> 0, current |-> 0]

\* while current != root, run to its end. A pass that leaves the state as it
\* was is followed by the same pass for ever: ends is FALSE then.
RECURSIVE ascend_all(_)
ascend_all(st) ==
    IF st.nodes[st.current].path = st.nodes[RootDir].path THEN [st |-> st, ends |-> TRUE]
    ELSE IF ascend(st) = st THEN [st |-> st, ends |-> FALSE]
    ELSE ascend_all(ascend(st))

\* The for loop of build_tree from its k-th record on.
RECURSIVE build_from(_, _, _)
build_from(st, rs, k) ==
    IF k > Len(rs) THEN [st |-> st, ends |-> TRUE]
    ELSE LET looked == lookup(st, rs[k])
             up == IF parent_directory(rs[k].path) \in DOMAIN st.dirs
                   THEN [st |-> looked, ends |-> TRUE]
                   ELSE ascend_all(looked)
         IN  IF up.ends THEN build_from(attach(up.st, rs[k]), rs, k + 1) ELSE up

\* build_tree(results) on a list that is not empty, as one function: the
\* state it returns in, or ends = FALSE when it does not return.
build_tree(rs) ==
    LET root_path == <<rs[1].path[1]>>
        grown == create_empty_dir(NoTree, root_path)
    IN  build_from([grown EXCEPT !.dirs = (root_path :> RootDir)], rs, 1)

\* Dir.postorder_walk: the Dirs in the order they are yielded.
RECURSIVE postorder_walk(_, _)
postorder_walk(st, n) ==
    LET l == st.lists[st.nodes[n].dirs]
    IN  Flatten([i \in 1..Len(l) |-> postorder_walk(st, l[i])]) \o <<n>>

\* The order of two SHA1 strings in sorted(): character by character.
RECURSIVE LexLeq(_, _)
LexLeq(a, b) ==
    IF a = <<>> THEN TRUE
    ELSE IF b = <<>> THEN FALSE
    ELSE IF Head(a) # Head(b) THEN Head(a) < Head(b)
    ELSE LexLeq(Tail(a), Tail(b))

\* sorted(s, key=...) on a list of [key, item]: ascending by key, stable.
RECURSIVE InsertByKey(_, _)
InsertByKey(s, x) ==
    IF s = <<>> THEN <<x>>
    ELSE IF LexLeq(s[Len(s)].key, x.key) THEN Append(s, x)
    ELSE Append(InsertByKey(SubSeq(s, 1, Len(s) - 1), x), s[Len(s)])

RECURSIVE SortedByKey(_)
SortedByKey(s) ==
    IF s = <<>> THEN <<>>
    ELSE InsertByKey(SortedByKey(SubSeq(s, 1, Len(s) - 1)), s[Len(s)])

\* File(scanned_file).data of the File at a path: the record itself.
FileData(rs, path) == CHOOSE r \in Range(rs) : r.path = path

\* A variant of the loop over files: the files are taken as they are listed.
files_as_listed(st, rs, n) ==
    LET l == st.lists[st.nodes[n].files]
    IN  [i \in 1..Len(l) |-> FileData(rs, l[i])]

\* sorted(files, key=lambda x: x.data['sha1']): the data of the files of the
\* Dir n in the order the loop takes them.
sorted_files(st, rs, n) ==
    LET l == st.lists[st.nodes[n].files]
        keyed == SortedByKey([i \in 1..Len(l) |->
                                [key |-> FileData(rs, l[i]).sha1, item |-> FileData(rs, l[i])]])
    IN  [i \in 1..Len(keyed) |-> keyed[i].item]

\* A variant of the loop over hash_stack: the digests are taken as they were kept.
stack_as_kept(stack) == stack

\* sorted(hash_stack, key=lambda x: x.hexdigest()): the digests in the order
\* the loop takes them.
sorted_stack(stack) ==
    LET keyed == SortedByKey([i \in 1..Len(stack) |-> [key |-> stack[i], item |-> stack[i]]])
    IN  [i \in 1..Len(keyed) |-> keyed[i].item]

\* sha1() after update() with each element of fed in turn, then hexdigest():
\* the digest of the concatenation. It is written as the fed text between two
\* marks, so different texts have different digests and no digest is its text.
hexdigest(fed) == <<8>> \o Flatten(fed) \o <<9>>

\* What build_merkle_tree keeps while it walks: h = [hash_stack, sha1s, output].
NoHashes == [hash_stack |-> <<>>, sha1s |-> <<>>, output |-> <<>>]

\* The body of the loop over postorder_walk for the Dir n of the tree st.
hash_dir(h, st, rs, n) ==
    LET files == sorted_files(st, rs, n)
        has_dirs == st.lists[st.nodes[n].dirs] # <<>>
        fed == [i \in 1..Len(files) |-> files[i].sha1]
               \o (IF has_dirs THEN sorted_stack(h.hash_stack) ELSE <<>>)
        digest == hexdigest(fed)
    IN  [hash_stack |-> IF has_dirs THEN <<>> ELSE Append(h.hash_stack, digest),
         sha1s |-> SetItem(h.sha1s, n, digest),
         output |-> h.output \o files
                    \o <<[path |-> st.nodes[n].path, type |-> "directory", sha1 |-> digest]>>]

\* The loop over postorder_walk for the Dirs of todo, in order.
RECURSIVE hash_all(_, _, _, _)
hash_all(h, st, rs, todo) ==
    IF todo = <<>> THEN h
    ELSE hash_all(hash_dir(h, st, rs, Head(todo)), st, rs, Tail(todo))

\* build_merkle_tree(active_scans, results) consumed to its end, as one
\* function of a list that is not empty: ends is FALSE when build_tree does
\* not return.
build_merkle_tree(rs) ==
    LET t == build_tree(rs)
    IN  IF t.ends
        THEN [ends |-> TRUE, tree |-> t.st,
              hashed |-> hash_all(NoHashes, t.st, rs, postorder_walk(t.st, RootDir))]
        ELSE [ends |-> FALSE, tree |-> t.st, hashed |-> NoHashes]

MerkleInit ==
    /\ visited = 0
    /\ hash_stack = <<>>
    /\ sha1s = <<>>
    /\ output = <<>>

\* One pass of the loop over root.postorder_walk(), build_tree having
\* returned: the files of the next Dir are yielded, then the Dir itself.
HashDir ==
    /\ bpc = "done"
    /\ visited < Len(postorder_walk(Builder, RootDir))
    /\ LET n == postorder_walk(Builder, RootDir)[visited + 1]
           h == hash_dir([hash_stack |-> hash_stack, sha1s |-> sha1s, output |-> output],
                         Builder, results, n)
       IN  /\ hash_stack' = h.hash_stack
           /\ sha1s' = h.sha1s
           /\ output' = h.output
    /\ visited' = visited + 1
    /\ UNCHANGED merkle_frame

\* ----------------------------------------------------------- specifications
\* No Codebase is constructed yet and no thread is in a call.
Init == CodebaseInit /\ RegistryInit /\ CacheInit /\ BuilderInit /\ MerkleInit

\* A codebase that is populated, pruned and walked. set_info, update_counts
\* and counts write size, files_count and dirs_count only, which no walk and
\* no remove_resource reads: they are left to SpecCounts.
Next == Construct \/ Prune \/ Traverse

Spec == Init /\ [][Next]_all_vars

\* A codebase that is populated, scanned, pruned and counted. A walk changes
\* nothing in the codebase: it is left to Spec.
NextCounts == Construct \/ Scan \/ Prune \/ Aggregate

SpecCounts == Init /\ [][NextCounts]_all_vars

\* A codebase that is populated, then grown and pruned in any order, and walked.
NextAdd == Construct \/ Grow \/ Prune \/ Traverse

SpecAdd == Init /\ [][NextAdd]_all_vars

\* The registry used by the threads of two processes, in any interleaving.
NextRegistry == Register \/ Unregister \/ Lock \/ Locked \/ Resolve

SpecRegistry == Init /\ [][NextRegistry]_all_vars

\* The scans of a Resource, kept in memory or in its cache file, read and
\* written in any order.
NextScans == Create \/ GetScans \/ Put

SpecScans == Init /\ [][NextScans]_all_vars

\* build_tree on any list of records a scan can give, step by step.
NextBuilder == BuildTree \/ Lookup \/ Ascend \/ Attach

SpecBuilder == Init /\ [][NextBuilder]_all_vars

\* build_merkle_tree on any list of records a scan can give: build_tree step by
\* step, then the hashing pass Dir by Dir.
NextMerkle == BuildTree \/ Lookup \/ Ascend \/ Attach \/ HashDir

SpecMerkle == Init /\ [][NextMerkle]_all_vars

\* ------------------------------------------------------------------ claims
\* The tree as the pid links give it, whatever the children_rids say.
LiveOf(res) == {i \in 0..(Len(res) - 1) : IsRes(Slot(res, i))}

RECURSIVE IsAncestorOrSelf(_, _, _)
IsAncestorOrSelf(res, a, n) ==
    \/ n = a
    \/ /\ IsRes(Slot(res, n))
       /\ Slot(res, n).pid # NonePid
       /\ IsAncestorOrSelf(res, a, Slot(res, n).pid[1])

SubtreeOf(res, a) == {n \in LiveOf(res) : IsAncestorOrSelf(res, a, n)}

LiveFiles(res, S) == {n \in S : Slot(res, n).is_file}
LiveDirs(res, S) == {n \in S : ~Slot(res, n).is_file}

RECURSIVE SumSizes(_, _)
SumSizes(res, S) ==
    IF S = {} THEN 0
    ELSE LET n == CHOOSE x \in S : TRUE
         IN  Slot(res, n).size + SumSizes(res, S \ {n})

NoDuplicates(s) == \A i, j \in 1..Len(s) : i # j => s[i] # s[j]

Tombstones(res) == {i \in 0..(Len(res) - 1) : Slot(res, i) = Nothing}

\* C1: in a tree reached from populate by add_child and remove calls, the
\* handles allocated are strictly increasing in the order of allocation, and
\* the Resource add_child returns shares its handle with no Resource of the tree.
C1_HandlesUniqueAndMonotonic ==
    /\ \A i, j \in 1..Len(issued) : i < j => issued[i] < issued[j]
    /\ last.op = "add_child" => \A n \in LiveRids : Slot(resources, n).rid # last.ret.rid

\* C2: after add_child(parent, name, is_file) the slot at the new handle holds
\* the created Resource, the handle is the last of the parent's children_rids,
\* and a walk from the root yields the new Resource.
C2_AddChildStoresTheNode ==
    last.op = "add_child" =>
        /\ Slot(resources, last.ret.rid).kind = "res"
        /\ Slot(resources, last.ret.rid) = last.ret
        /\ last.ret.pid = <<last.parent>>
        /\ LET kids == Slot(resources, last.parent).children_rids
           IN  kids # <<>> /\ kids[Len(kids)] = last.ret.rid
        /\ LET w == CodebaseWalk(resources, TRUE, FALSE, FALSE)
           IN  ~w.raised /\ last.ret.rid \in Range(w.seq)

\* C3: remove of a non-root Resource n returns, once each, exactly the handles
\* of n and of its descendants, leaves None in exactly those slots, leaves
\* every other slot as it was but for the children_rids of n's parent, which
\* lose n's handle and nothing else.
C3_RemoveTakesExactlyTheSubtree ==
    [][(last'.op = "remove" /\ Slot(resources, last'.rid).pid # NonePid) =>
        LET n == last'.rid
            gone == SubtreeOf(resources, n)
            p == Slot(resources, n).pid[1]
        IN  /\ ~last'.raised
            /\ Range(last'.ret) = gone
            /\ NoDuplicates(last'.ret)
            /\ Len(resources') = Len(resources)
            /\ \A i \in 0..(Len(resources) - 1) :
                 IF i \in gone THEN Slot(resources', i) = Nothing
                 ELSE IF i = p
                 THEN /\ Slot(resources', i) =
                           [Slot(resources, i) EXCEPT !.children_rids = Slot(resources', i).children_rids]
                      /\ Slot(resources', i).children_rids =
                           SelectSeq(Slot(resources, i).children_rids, LAMBDA c : c # n)
                 ELSE Slot(resources', i) = Slot(resources, i)]_vars

C3_Witness ==
    /\ last.op = "remove"
    /\ ~last.raised
    /\ Len(last.ret) >= 2
    /\ \E i \in LiveRids : i > last.rid

\* C4: remove of the root raises and changes nothing: no slot and no
\* children_rids differ afterwards.
C4_RemoveRootRaises ==
    [][(last'.op = "remove" /\ Slot(resources, last'.rid).pid = NonePid) =>
        /\ last'.raised
        /\ last'.ret = <<>>
        /\ resources' = resources]_vars

C4_Witness ==
    /\ last.op = "remove"
    /\ last.rid = 0
    /\ last.raised
    /\ Len(Slot(resources, 0).children_rids) >= 2

\* C5: after populate exactly one Resource has pid None, and the handle of every
\* other Resource is in exactly one children_rids, once, that of the Resource
\* its pid names.
C5_OneRootOneParent ==
    last.op = "populate" =>
        /\ Cardinality({n \in LiveRids : Slot(resources, n).pid = NonePid}) = 1
        /\ \A n \in LiveRids : Slot(resources, n).pid # NonePid =>
             LET holds == {<<m, i>> \in LiveRids \X (1..Len(resources)) :
                             /\ i <= Len(Slot(resources, m).children_rids)
                             /\ Slot(resources, m).children_rids[i] = n}
             IN  /\ Cardinality(holds) = 1
                 /\ \A h \in holds : <<h[1]>> = Slot(resources, n).pid

C5_Witness ==
    /\ last.op = "populate"
    /\ ~last.raised
    /\ \E n \in LiveRids :
         /\ Slot(resources, n).pid # NonePid
         /\ Slot(resources, n).pid # <<0>>
    /\ Len(Slot(resources, 0).children_rids) >= 2

\* C6: after update_counts, on a populated tree with or without removals, every
\* directory has as files_count the number of live files in its subtree, as
\* dirs_count the number of live directories strictly below it and as size the
\* sum of the sizes of the live files in its subtree.
C6_UpdateCountsAggregates ==
    last.op = "update_counts" =>
        /\ ~last.raised
        /\ \A d \in LiveDirs(resources, LiveRids) :
             LET sub == SubtreeOf(resources, d)
             IN  /\ Slot(resources, d).files_count = Cardinality(LiveFiles(resources, sub))
                 /\ Slot(resources, d).dirs_count = Cardinality(LiveDirs(resources, sub) \ {d})
                 /\ Slot(resources, d).size = SumSizes(resources, LiveFiles(resources, sub))

C6_Witness ==
    /\ last.op = "update_counts"
    /\ Tombstones(resources) # {}
    /\ Slot(resources, 0).files_count >= 1
    /\ Slot(resources, 0).dirs_count >= 1
    /\ Slot(resources, 0).size >= 1
    /\ \E n \in LiveRids : Slot(resources, n).pid \notin {NonePid, <<0>>}

\* C7: update_counts is idempotent: a second call straight after the first
\* leaves size, files_count and dirs_count of every Resource as they are.
C7_UpdateCountsIdempotent ==
    last.op = "update_counts" =>
        /\ ~update_counts(resources).raised
        /\ update_counts(resources).res = resources

C7_Witness ==
    /\ last.op = "update_counts"
    /\ Slot(resources, 0).files_count >= 2
    /\ Slot(resources, 0).size >= 1

\* C8: on a directory codebase, a root without children included,
\* counts(update=True, skip_root=True) returns the numbers of the codebase
\* without its root: the files, the directories other than the root, and the
\* total size of the files.
C8_CountsSkipRoot ==
    (last.op = "counts" /\ last.update /\ last.skip_root /\ ~Slot(resources, 0).is_file) =>
        /\ ~last.raised
        /\ last.ret = <<Cardinality(LiveFiles(resources, LiveRids)),
                        Cardinality(LiveDirs(resources, LiveRids) \ {0}),
                        SumSizes(resources, LiveFiles(resources, LiveRids))>>

\* Where the handles of S stand in the sequence s.
Positions(s, S) == {i \in 1..Len(s) : s[i] \in S}
IsInterval(P) == \A i, j \in P : \A k \in i..j : k \in P

\* C9: walk(topdown=True) yields every live Resource exactly once, each
\* before all of its descendants and the subtree of each child in one piece
\* before the next sibling; walk(topdown=False) yields every live Resource
\* exactly once, each after all of its descendants.
C9_WalkOrder ==
    (last.op = "walk" /\ ~last.skip_root) =>
        /\ ~last.raised
        /\ Range(last.ret) = LiveRids
        /\ NoDuplicates(last.ret)
        /\ \A n \in LiveRids :
             LET P == Positions(last.ret, SubtreeOf(resources, n))
                 at == IndexOf(last.ret, n)
             IN  /\ IsInterval(P)
                 /\ IF last.topdown THEN \A i \in P : at <= i
                                    ELSE \A i \in P : i <= at

C9_Witness ==
    /\ last.op = "walk"
    /\ ~last.skip_root
    /\ ~last.topdown
    /\ Len(last.ret) >= 4
    /\ \E n \in LiveRids : Slot(resources, n).pid \notin {NonePid, <<0>>}

InCriticalSection == {t \in Threads : pc[t] \in {"cs", "store"}}

\* C12: in each process, the cids add_codebase returns for newly added
\* codebases are strictly increasing in the order they are returned, whatever
\* del_codebase calls come in between: no cid is given a second time.
C12_HandlesNeverReused ==
    \A p \in Procs : \A i, j \in 1..Len(given[p]) : i < j => given[p][i] < given[p][j]

C14_LockTimeout ==
    [][/\ \A t \in Threads :
            (pc[t] = "wait" /\ pc'[t] # "wait" /\ lock # 0) =>
                /\ pc'[t] = "idle"
                /\ answer'.raised /\ answer'.t = t /\ answer'.op = call[t].op
                /\ answer'.ret = 0 /\ answer'.obj = None
                /\ _CODEBASES' = _CODEBASES
                /\ lock' = lock
       /\ \A t \in Threads : pc'[t] \in {"cs", "store"} => lock' = t
       /\ _CODEBASES' # _CODEBASES => (lock # 0 /\ pc[lock] \in {"cs", "store"})
      ]_all_vars

C14_Witness ==
    /\ answer.op = "del"
    /\ answer.raised
    /\ lock # 0
    /\ pc[lock] = "store"
    /\ _CODEBASES[ProcOf(answer.t)] # <<>>

\* C15: at most one thread, of whatever process, is inside the with block at a
\* time, and two codebase objects that are registered at the same time have
\* different cids, also when different processes hold them.
C15_ExclusiveAndDistinct ==
    /\ Cardinality(InCriticalSection) <= 1
    /\ \A p, q \in Procs : p # q => DOMAIN _CODEBASES[p] \cap DOMAIN _CODEBASES[q] = {}

\* An OrderedDict as a mapping: the value of each of its keys.
AsMapping(d) ==
    [k \in {d[i][1] : i \in 1..Len(d)} |-> d[CHOOSE i \in 1..Len(d) : d[i][1] = k][2]]

\* The key-wise union of two mappings, the second winning on the keys of both.
UnionMapping(m1, m2) ==
    [k \in DOMAIN m1 \cup DOMAIN m2 |-> IF k \in DOMAIN m2 THEN m2[k] ELSE m1[k]]

\* What get_scans() returns in the state.
Stored == get_scans(use_cache, _scans, cached)

IsEmptyArg(arg) == arg.is_none \/ arg.items = <<>>

C17_EmptyPutIsNoOp ==
    [][(reply'.op = "put" /\ IsEmptyArg(reply'.arg)) =>
        /\ reply'.ret = <<>>
        /\ Stored' = Stored
        /\ _scans' = _scans
        /\ cached' = cached
      ]_all_vars

C17_Witness ==
    /\ reply.op = "put"
    /\ reply.arg.is_none
    /\ ~reply.update
    /\ Len(Stored) = 2

\* The Dir objects of the tree build_tree returns: the root and what the dirs
\* lists lead to from it.
RECURSIVE ReachFrom(_, _)
ReachFrom(S, k) ==
    IF k = 0 THEN S
    ELSE ReachFrom(S \cup UNION {Range(lists[nodes[n].dirs]) : n \in S}, k - 1)

InTree == ReachFrom({RootDir}, Len(nodes))

\* The Dir n has the record r as a child: a Dir with the path of r in its
\* dirs, or the File of r in its files.
HoldsRecord(n, r) ==
    IF r.type = "directory"
    THEN \E i \in 1..Len(lists[nodes[n].dirs]) : nodes[lists[nodes[n].dirs][i]].path = r.path
    ELSE \E i \in 1..Len(lists[nodes[n].files]) : lists[nodes[n].files][i] = r.path

\* C18: build_tree comes to its end on every non-empty list of records,
\* the record of the root directory included: a pass of its while loop never
\* leaves all of its state as it was (such a pass repeats for ever), and at
\* the end every record is handled and the root returned is the Dir of the top
\* segment of the first path.
C18_BuildTreeTerminates ==
    /\ (bpc = "ascend" /\ nodes[locals.current].path # nodes[RootDir].path) =>
            ascend(Builder) # Builder
    /\ bpc = "done" =>
            /\ nth = Len(results)
            /\ nodes[RootDir].path = <<results[1].path[1]>>

\* C19: when build_tree has ended, whatever the number of ancestors of a
\* record that have no record, every record is a child of a Dir of the tree
\* with the path of its parent directory, in dirs when it is a directory and
\* in files when it is not, and for every Dir that was made up for a missing
\* parent a Dir of the tree with the path of its own parent holds a Dir with
\* its path and its lists.
C19_EveryNodeUnderItsParent ==
    bpc = "done" =>
        /\ \A k \in 1..Len(results) :
             \E n \in InTree :
                /\ nodes[n].path = parent_directory(results[k].path)
                /\ HoldsRecord(n, results[k])
        /\ \A o \in 2..Len(nodes) :
             ~nodes[o].scanned =>
                \E n \in InTree :
                   /\ nodes[n].path = parent_directory(nodes[o].path)
                   /\ \E i \in 1..Len(lists[nodes[n].dirs]) :
                        LET m == lists[nodes[n].dirs][i]
                        IN  /\ nodes[m].path = nodes[o].path
                            /\ nodes[m].dirs = nodes[o].dirs
                            /\ nodes[m].files = nodes[o].files

\* C20: when build_tree has ended on records of different paths, no dirs list
\* holds two Dirs of one path, and the Dir of the tree at the path of a
\* directory record has the data of the record and, as children, every record
\* of the input whose parent directory it is, whether that record came before
\* or after its own.
C20_NoDuplicatesAndRecordData ==
    bpc = "done" =>
        /\ \A n \in 1..Len(nodes) :
             LET l == lists[nodes[n].dirs]
             IN  \A i, j \in 1..Len(l) : i # j => nodes[l[i]].path # nodes[l[j]].path
        /\ \A k \in 1..Len(results) :
             results[k].type = "directory" =>
                /\ \E n \in InTree : nodes[n].path = results[k].path
                /\ \A n \in InTree :
                     nodes[n].path = results[k].path =>
                        /\ nodes[n].scanned
                        /\ \A c \in 1..Len(results) :
                             parent_directory(results[c].path) = results[k].path =>
                                HoldsRecord(n, results[c])

\* The entries the filesystem f holds directly in its root location.
RootEntries(f) == {q \in DOMAIN f : Len(q) = 1}

\* C25: populate creates the root at slot 0 with rid 0 and no parent, and
\* when it ends without raising the classification of the root location
\* changes nothing: every entry of the root location that is not classified
\* special or ignored has a Resource that is a child of the root.
C25_RootNeverFiltered ==
    (last.op = "populate" /\ ~last.raised) =>
        /\ Len(resources) >= 1
        /\ IsRes(Slot(resources, 0))
        /\ Slot(resources, 0).rid = 0
        /\ Slot(resources, 0).pid = NonePid
        /\ \A q \in RootEntries(last.fs) :
             ~Skipped(last.fs, q) =>
                \E i \in 1..(Len(resources) - 1) :
                    /\ IsRes(Slot(resources, i))
                    /\ Slot(resources, i).pid = <<0>>
                    /\ Slot(resources, i).name = q[1]
                    /\ Slot(resources, i).is_file = last.fs[q].is_file

\* The location of the Resource at slot rid below the codebase location, from
\* the names along its pid links.
RECURSIVE PathOf(_, _)
PathOf(res, rid) ==
    IF Slot(res, rid).pid = NonePid THEN <<>>
    ELSE Append(PathOf(res, Slot(res, rid).pid[1]), Slot(res, rid).name)

\* C26: on a root location that is not itself classified, populate ends
\* without raising whatever the classification of the entries, and no
\* Resource stands for an entry classified special or ignored or for an entry
\* anywhere beneath one.
C26_PopulateSkipsWholeSubtrees ==
    (last.op = "populate" /\ ~Skipped(last.fs, <<>>)) =>
        /\ ~last.raised
        /\ \A i \in 1..(Len(resources) - 1) :
             LET p == PathOf(resources, i)
             IN  \A k \in 1..Len(p) : ~Skipped(last.fs, SubSeq(p, 1, k))

\* C27: when populate has ended without raising, the Resource at slot i has
\* rid i, the root is at slot 0, and the rids in increasing order are the
\* topdown walk of the codebase.
C27_HandlesInPreOrder ==
    (last.op = "populate" /\ ~last.raised) =>
        /\ \A i \in 0..(Len(resources) - 1) :
             IsRes(Slot(resources, i)) /\ Slot(resources, i).rid = i
        /\ Slot(resources, 0).pid = NonePid
        /\ LET w == CodebaseWalk(resources, TRUE, FALSE, FALSE)
           IN  ~w.raised /\ w.seq = [i \in 1..Len(resources) |-> i - 1]

\* C29: in every state removals leave of a populated codebase, every Resource
\* left is at the slot of its rid, the children_rids of the Resources left
\* name only slots that hold a Resource, and a walk from the root, in either
\* direction, yields the Resources left, each once.
C29_RemoveKeepsHandlesStable ==
    phase = "populated" =>
        /\ \A i \in LiveRids : Slot(resources, i).rid = i
        /\ \A i \in LiveRids :
             \A k \in 1..Len(Slot(resources, i).children_rids) :
                Slot(resources, i).children_rids[k] \in LiveRids
        /\ \A topdown \in BOOLEAN :
             LET w == CodebaseWalk(resources, topdown, FALSE, FALSE)
             IN  /\ ~w.raised
                 /\ Range(w.seq) = LiveRids
                 /\ NoDuplicates(w.seq)

\* Two removals were made, the latest of a single Resource, and some child
\* of the root is left.
C29_Witness ==
    /\ phase = "populated"
    /\ last.op = "remove"
    /\ ~last.raised
    /\ Len(last.ret) = 1
    /\ Cardinality(Tombstones(resources)) >= 2
    /\ Cardinality(LiveRids) >= 2

\* build_merkle_tree is consumed to its end.
Hashed == bpc = "done" /\ visited = Len(postorder_walk(Builder, RootDir))

\* The digests a run gave: the pairs of a Dir's path and its data['sha1'].
DigestsOf(tree, hashed) ==
    {<<tree.nodes[n].path, hashed.sha1s[n]>> : n \in DOMAIN hashed.sha1s}

\* The lists got from rs by putting its records in another order.
Reordered(rs) ==
    {[i \in 1..Len(rs) |-> rs[p[i]]] :
        p \in {q \in [1..Len(rs) -> 1..Len(rs)] :
                 \A i, j \in 1..Len(rs) : i # j => q[i] # q[j]}}

\* The lists got from rs by reordering only the file records directly under d.
FilesReordered(rs, d) ==
    {rs2 \in Reordered(rs) :
        \A i \in 1..Len(rs) :
           (rs[i].type # "file" \/ parent_directory(rs[i].path) # d) => rs2[i] = rs[i]}

\* C21: when build_merkle_tree is consumed to its end, every directory has the
\* digest it gets on every input that differs only in the order of the file
\* records directly under that directory.
C21_DigestIndependentOfFileOrder ==
    Hashed =>
        \A n \in DOMAIN sha1s :
           \A rs2 \in FilesReordered(results, nodes[n].path) :
              LET m == build_merkle_tree(rs2)
              IN  /\ m.ends
                  /\ {x \in DigestsOf(m.tree, m.hashed) : x[1] = nodes[n].path}
                       = {<<nodes[n].path, sha1s[n]>>}

\* A directory was hashed whose files were listed with the greater SHA1 first.
C21_Witness ==
    /\ Hashed
    /\ \E i, j \in 1..Len(results) :
          /\ i < j
          /\ results[i].type = "file" /\ results[j].type = "file"
          /\ parent_directory(results[i].path) = parent_directory(results[j].path)
          /\ results[i].sha1 # results[j].sha1
          /\ LexLeq(results[j].sha1, results[i].sha1)
          /\ \E n \in DOMAIN sha1s :
                /\ nodes[n].path = parent_directory(results[i].path)
                /\ sha1s[n] = hexdigest(<<results[j].sha1, results[i].sha1>>)

\* C22: the digest a directory is given is the digest of the SHA1s of the
\* files in its files list and the digests of the Dirs in its dirs list, each
\* in ascending order, and of nothing else.
C22_DigestOfDirectChildren ==
    bpc = "done" =>
        \A n \in DOMAIN sha1s :
           LET files == sorted_files(Builder, results, n)
               kids == lists[nodes[n].dirs]
           IN  sha1s[n] = hexdigest([i \in 1..Len(files) |-> files[i].sha1]
                                    \o sorted_stack([i \in 1..Len(kids) |-> sha1s[kids[i]]]))

\* The positions of the output holding a record of the path and type of r.
OutputOf(r) == {i \in 1..Len(output) : output[i].path = r.path /\ output[i].type = r.type}

\* C23: on every list of records that is not empty, build_merkle_tree comes to
\* its end when it is consumed, and it has then yielded every record of the
\* input exactly once, a file record with its own SHA1 and a directory record
\* with the digest computed for its Dir.
C23_EveryRecordYieldedOnce ==
    /\ bpc \notin {"idle", "raised"} => build_merkle_tree(results).ends
    /\ Hashed =>
          \A k \in 1..Len(results) :
             /\ Cardinality(OutputOf(results[k])) = 1
             /\ \A i \in OutputOf(results[k]) :
                   IF results[k].type = "file"
                   THEN output[i].sha1 = results[k].sha1
                   ELSE \E n \in DOMAIN sha1s :
                           /\ nodes[n].path = results[k].path
                           /\ nodes[n].scanned
                           /\ output[i].sha1 = sha1s[n]

\* C24: build_merkle_tree on an empty list of records ends by raising, with
\* no Dir created, nothing stored in dirs, nothing hashed and no record yielded.
C24_EmptyInputRaises ==
    (bpc # "idle" /\ results = <<>>) =>
        /\ bpc = "raised"
        /\ nodes = <<>>
        /\ lists = <<>>
        /\ dirs = <<>>
        /\ visited = 0
        /\ sha1s = <<>>
        /\ output = <<>>

\* The plugin was run on the empty list and raised.
C24_Witness == bpc = "raised" /\ results = <<>> /\ nth = 0

\* The sequence s stands in ascending order of SHA1 value.
Ascending(s) == \A i \in 1..(Len(s) - 1) : LexLeq(s[i], s[i + 1])

\* C28: every pass of the hashing loop gives the Dir it visits the digest of
\* the SHA1s of its files in ascending order, followed, when the Dir has a
\* child directory, by every digest then on hash_stack in ascending order.
\* A Dir with a child directory leaves hash_stack empty and without its own
\* digest; a Dir with none leaves hash_stack as it was, with its own digest added
\* at the end.
C28_PendingList ==
    [][visited' = visited + 1 =>
          LET n == postorder_walk(Builder, RootDir)[visited + 1]
              l == lists[nodes[n].files]
              own == [i \in 1..Len(l) |-> FileData(results, l[i]).sha1]
              has_dirs == lists[nodes[n].dirs] # <<>>
          IN  /\ n \notin DOMAIN sha1s
              /\ DOMAIN sha1s' = DOMAIN sha1s \cup {n}
              /\ \A m \in DOMAIN sha1s : sha1s'[m] = sha1s[m]
              /\ \E F \in Reordered(own), P \in Reordered(hash_stack) :
                    /\ Ascending(F)
                    /\ Ascending(P)
                    /\ sha1s'[n] = hexdigest(F \o (IF has_dirs THEN P ELSE <<>>))
              /\ hash_stack' = IF has_dirs THEN <<>> ELSE Append(hash_stack, sha1s'[n])
      ]_all_vars

\* A Dir without files was hashed whose two child directories, both without
\* child directories, had left their digests on hash_stack greater one first.
C28_Witness ==
    /\ bpc = "done"
    /\ \E n \in DOMAIN sha1s :
          LET kids == lists[nodes[n].dirs]
          IN  /\ Len(kids) = 2
              /\ lists[nodes[n].files] = <<>>
              /\ \A i \in 1..2 : kids[i] \in DOMAIN sha1s /\ lists[nodes[kids[i]].dirs] = <<>>
              /\ sha1s[kids[1]] # sha1s[kids[2]]
              /\ LexLeq(sha1s[kids[2]], sha1s[kids[1]])
              /\ sha1s[n] = hexdigest(<<sha1s[kids[2]], sha1s[kids[1]]>>)
              /\ hash_stack = <<>>

\* The lists got from rs by reordering only the directory records directly
\* under d, which are sibling directories.
SiblingDirsReordered(rs, d) ==
    {rs2 \in Reordered(rs) :
        \A i \in 1..Len(rs) :
           (rs[i].type # "directory" \/ parent_directory(rs[i].path) # d) => rs2[i] = rs[i]}

\* C30: when build_merkle_tree is consumed to its end on records at most two
\* levels below the root (build_tree then attaches each under its parent), it
\* comes to its end too on every list that holds the same records with only
\* sibling directory records in another order, and gives every directory the
\* same digest there.
C30_DigestsIndependentOfInputOrder ==
    (Hashed /\ \A k \in 1..Len(results) : Len(results[k].path) <= 3) =>
        \A d \in {parent_directory(results[k].path) : k \in 1..Len(results)} :
           \A rs2 \in SiblingDirsReordered(results, d) :
              LET m == build_merkle_tree(rs2)
              IN  /\ m.ends
                  /\ DigestsOf(m.tree, m.hashed) = DigestsOf(Builder, [sha1s |-> sha1s])
====
